---------------------------- MODULE Spec2Model ----------------------------
(***************************************************************************)
(* Model of the discography crawler: RateLimiter and RetryManager          *)
(* (src/src/crawlers/base_crawler.py), the MusicBrainz client              *)
(* (src/src/services/musicbrainz_client.py), the Last.fm client            *)
(* (src/src/services/lastfm_client.py), CrawlStatus and Discography        *)
(* (src/src/models/discography.py), DiscographyCrawler                     *)
(* (src/src/discography_crawler.py), the Genius client                     *)
(* (src/src/services/genius_client.py) and the lyrics-metadata client      *)
(* (src/src/services/lyrics_metadata_client.py).                           *)
(*                                                                         *)
(* Time is a discrete clock `now`.  Tasks are asyncio tasks; an action is  *)
(* the code a task runs between two suspension points (await).  The        *)
(* synchronous code of a step is written as operators on records, and the  *)
(* actions store their results in the variables.                           *)
(*                                                                         *)
(* Several systems are specified over the same variables:                  *)
(*   RateSpec   tasks calling RateLimiter.acquire() concurrently           *)
(*   RetrySpec  one task calling RetryManager.execute_with_retry()         *)
(*   Spec       one DiscographyCrawler.crawl(), as crawl_artist_discography *)
(*              runs it, its requests made within one rate-limit window    *)
(*   CancelSpec Spec, with the crawl's task cancelled at any suspension    *)
(*   MergeSpec  _merge_album_data applied to an album and a payload        *)
(*   TotalsSpec Discography.total_albums and total_tracks                  *)
(*   StatusSpec the methods of a CrawlStatus object                        *)
(*   SearchSpec DiscographyCrawler.search_artists(query, limit)            *)
(*   SpanSpec   Discography.discography_span                               *)
(*   LyricsSpec LyricsMetadataClient._extract_safe_metadata                *)
(*   ConcurrentSpec   two crawl() calls interleaved on one crawler         *)
(*   ClientSpec       the session of a LastFmClient or GeniusClient        *)
(*   CancellationSpec CancelSpec, or a cancelled execute_with_retry        *)
(*   ParseSpec  the item lists of the MusicBrainz responses                *)
(*   GeniusSpec GeniusClient._rate_limit                                   *)
(***************************************************************************)
EXTENDS Integers, Sequences, FiniteSets, TLC

(* ------------------------------ bounds --------------------------------- *)
NumTasks == 2       \* concurrent callers of acquire()
MaxTime == 5        \* the clock stops here
MaxReq == 2         \* RateLimiter.max_requests ranges over 1..MaxReq
MaxWindow == 2      \* RateLimiter.time_window ranges over 1..MaxWindow
MaxRetries == 2     \* RetryManager.max_retries ranges over 0..MaxRetries
MaxBase == 2        \* RetryManager.base_delay ranges over 1..MaxBase
MaxDelayCap == 3    \* RetryManager.max_delay ranges over 1..MaxDelayCap
MaxFailures == 3    \* an operation fails 0..MaxFailures times, then succeeds
MaxCandidates == 2  \* artists a search returns
MaxAlbums == 2      \* release groups a browse returns
MaxTracks == 2      \* tracks a release has

(* ------------------------ program constants ---------------------------- *)
DefaultBaseDelay == 1      \* RetryManager.__init__ base_delay = 1.0
DefaultMaxDelay == 60      \* RetryManager.__init__ max_delay = 60.0
DefaultMaxRetries == 3     \* DiscographyCrawler.__init__ max_retries = 3
DefaultRateLimit == 5      \* DiscographyCrawler.__init__ rate_limit_requests = 5
DefaultRateWindow == 60    \* DiscographyCrawler.__init__ rate_limit_window = 60

Tasks == 1..NumTasks
NoTask == 0

VARIABLES
    now,            \* the wall clock read by time.time() / datetime.now()
    rl,             \* the RateLimiter and each task's position in acquire()
    retry_manager,  \* the RetryManager's configuration
    rt,             \* per task: its call of execute_with_retry()
    op,             \* RetrySpec: the behaviour of the operation retried
    lastfm_api_key, \* DiscographyCrawler.lastfm_api_key: whether one was given
    stats,          \* BaseCrawler.stats
    statusObjs,     \* every CrawlStatus object created, in creation order
    status,         \* DiscographyCrawler.status: index in statusObjs, 0 = None
    c,              \* per task: its call of crawl()
    apiCall         \* a direct call of one operation: arguments and result

crawlVars == <<lastfm_api_key, stats, statusObjs, status, c, apiCall>>
vars == <<now, rl, retry_manager, rt, op, lastfm_api_key, stats, statusObjs,
          status, c, apiCall>>

(* ---------------------------- helpers ---------------------------------- *)
Min(a, b) == IF a <= b THEN a ELSE b

RECURSIVE Pow2(_)
Pow2(n) == IF n = 0 THEN 1 ELSE 2 * Pow2(n - 1)

SeqMin(s) == CHOOSE x \in {s[i] : i \in DOMAIN s} :
                \A j \in DOMAIN s : x <= s[j]

\* no direct call is being made
NoCall == [name |-> "none"]

(* ----------------------------- errors ---------------------------------- *)
\* An exception value: its class, its identity (which raise produced it) and
\* str(e) as a sequence of words.
NoError == [type |-> "None", id |-> 0, msg |-> <<>>]

(* --------------------------- RateLimiter ------------------------------- *)
RECURSIVE PruneDroppingBoundary(_, _, _)
\* a pruning that forgets a call one tick before it leaves the window
PruneDroppingBoundary(reqs, t, w) ==
    IF reqs = <<>> THEN <<>>
    ELSE IF t - Head(reqs) < w - 1
         THEN <<Head(reqs)>> \o PruneDroppingBoundary(Tail(reqs), t, w)
         ELSE PruneDroppingBoundary(Tail(reqs), t, w)

RECURSIVE Prune(_, _, _)
\* [req_time for req_time in self.requests if now - req_time < self.time_window]
Prune(reqs, t, w) ==
    IF reqs = <<>> THEN <<>>
    ELSE IF t - Head(reqs) < w
         THEN <<Head(reqs)>> \o Prune(Tail(reqs), t, w)
         ELSE Prune(Tail(reqs), t, w)

\* len(self.requests) >= self.max_requests
LimitReached(reqs, maxr) == Len(reqs) >= maxr

\* sleep_time = self.time_window - (now - oldest_request)
SleepTime(reqs, t, w) == w - (t - SeqMin(reqs))

\* RateLimiter.__init__, with every task outside acquire()
RateLimiter(maxr, w) ==
    [max_requests |-> maxr,
     time_window  |-> w,
     requests     |-> <<>>,                      \* self.requests
     lockHolder   |-> NoTask,                    \* self._lock: its holder
     lockWaiters  |-> <<>>,                      \* self._lock: its waiters
     apc          |-> [p \in Tasks |-> "idle"],  \* position in acquire()
     wake         |-> [p \in Tasks |-> 0],       \* end of asyncio.sleep
     granted      |-> <<>>]                      \* history of recorded calls

\* acquire() from `async with self._lock` to its first suspension or its
\* end, called by task p at time t.  asyncio.Lock is not reentrant: a task
\* that finds the lock held, also by itself, is queued behind it.  With the
\* lock free the body runs without suspension up to asyncio.sleep (lock
\* kept) or to the end of the block (call recorded, lock released).
acquire(l, p, t) ==
    IF l.lockHolder # NoTask
    THEN [l EXCEPT !.lockWaiters = Append(@, p),
                   !.apc[p] = IF @ = "sleeping" THEN "inner_lock_wait"
                                                ELSE "lock_wait"]
    ELSE LET pruned == Prune(l.requests, t, l.time_window)
         IN  IF /\ LimitReached(pruned, l.max_requests)
                /\ SleepTime(pruned, t, l.time_window) > 0
             THEN [l EXCEPT !.requests = pruned,
                            !.lockHolder = p,
                            !.wake[p] = t + SleepTime(pruned, t, l.time_window),
                            !.apc[p] = "sleeping"]
             ELSE [l EXCEPT !.requests = Append(pruned, t),
                            !.granted = Append(@, t),
                            !.apc[p] = "idle"]

(* --------------------------- RetryManager ------------------------------ *)
\* RetryManager.__init__
RetryManager(maxRetries, baseDelay, maxDelay) ==
    [max_retries |-> maxRetries, base_delay |-> baseDelay, max_delay |-> maxDelay]

\* a call of execute_with_retry: the frame's locals, and what it has done
RetryIdle ==
    [pc             |-> "idle",    \* idle, call, backoff, returned, raised
     attempt        |-> 0,
     last_exception |-> NoError,
     wake           |-> 0,         \* end of the backoff asyncio.sleep
     value          |-> "",        \* the value returned
     raised         |-> NoError,   \* the exception raised to the caller
     invocations    |-> 0,         \* history: times func was invoked
     waits          |-> <<>>]      \* history: the delays slept

\* the delay without the max_delay cap
DelayUncapped(rm, attempt) == rm.base_delay * Pow2(attempt)
\* delay = min(self.base_delay * (2 ** attempt), self.max_delay)
Delay(rm, attempt) == Min(rm.base_delay * Pow2(attempt), rm.max_delay)

\* a retry test that gives up one attempt too early
MayRetryOneLess(rm, attempt) == attempt < rm.max_retries - 1
\* a retry test that allows one attempt too many
MayRetryOneMore(rm, attempt) == attempt <= rm.max_retries
\* if attempt < self.max_retries
MayRetry(rm, attempt) == attempt < rm.max_retries

\* last_exception = e
LastException(old, e) == e

\* the start of execute_with_retry: last_exception = None, attempt = 0 and
\* func about to be invoked
retry_start == [RetryIdle EXCEPT !.pc = "call"]

\* `return await func(...)`: func returned v
retry_on_return(r, v) ==
    [r EXCEPT !.pc = "returned", !.value = v, !.invocations = @ + 1]

\* `except Exception as e`: func raised e at time t.  After the last attempt
\* the loop ends and last_exception is raised.
retry_on_raise(rm, r, e, t) ==
    LET last == LastException(r.last_exception, e)
    IN  IF MayRetry(rm, r.attempt)
        THEN [r EXCEPT !.pc = "backoff",
                       !.last_exception = last,
                       !.invocations = @ + 1,
                       !.wake = t + Delay(rm, r.attempt),
                       !.waits = Append(@, Delay(rm, r.attempt))]
        ELSE [r EXCEPT !.pc = "raised",
                       !.last_exception = last,
                       !.invocations = @ + 1,
                       !.raised = last]

\* asyncio.sleep(delay) is over: the next iteration of the for loop
retry_after_sleep(r) == [r EXCEPT !.pc = "call", !.attempt = @ + 1]

(* --------------------------- data model -------------------------------- *)
NoTime == -1        \* Optional[datetime] = None
NoDur == -1         \* Track.duration_ms = None
NoYear == 0         \* Album.release_year = None (sorted as `or 0`)
NoLabel == ""       \* Album.label = None

\* Artist, as built by MusicBrainzClient._parse_artist
Artist(name, id) == [name |-> name, musicbrainz_id |-> id]
NoArtist == Artist("", 0)

\* Track, as built by MusicBrainzClient._parse_track
Track(position, duration) ==
    [title        |-> position,    \* the recording's title, one per position
     track_number |-> position,
     duration_ms  |-> duration]

\* Album, as built by MusicBrainzClient._parse_release_group: label and
\* genre are left at their defaults
Album(rg, tracks) ==
    [title        |-> rg.id,
     release_year |-> rg.year,
     label        |-> NoLabel,
     genre        |-> <<>>,
     tracks       |-> tracks]

\* a track count that takes an album without tracks for one track
TrackCountAtLeastOne(album) == IF album.tracks = <<>> THEN 1 ELSE Len(album.tracks)
\* Album.track_count
track_count(album) == Len(album.tracks)

RECURSIVE SumTrackCounts(_)
SumTrackCounts(albums) ==
    IF albums = <<>> THEN 0
    ELSE track_count(Head(albums)) + SumTrackCounts(Tail(albums))

Discography(artist, albums, sources) ==
    [artist |-> artist, albums |-> albums, sources |-> sources]
NoDiscography == Discography(NoArtist, <<>>, <<>>)

RECURSIVE SumTrackLens(_)
\* sum(len(album.tracks) for album in enhanced_albums)
SumTrackLens(albums) ==
    IF albums = <<>> THEN 0
    ELSE Len(Head(albums).tracks) + SumTrackLens(Tail(albums))

\* Discography.total_albums
total_albums(d) == Len(d.albums)
\* Discography.total_tracks
total_tracks(d) == SumTrackCounts(d.albums)

\* CrawlStatus(artist_name=...) created at time t
CrawlStatus(name, t) ==
    [artist_name  |-> name,
     completed_at |-> NoTime,
     status       |-> "in_progress",
     albums_found |-> 0,
     tracks_found |-> 0,
     errors       |-> <<>>]

\* a mark_completed that forgets the timestamp
MarkCompletedNoTimestamp(st, t) == [st EXCEPT !.status = "completed"]
\* CrawlStatus.mark_completed at time t
mark_completed(st, t) ==
    [st EXCEPT !.status = "completed", !.completed_at = t]

\* a mark_failed that does not record the error
MarkFailedNoError(st, error, t) ==
    [st EXCEPT !.status = "failed", !.completed_at = t]
\* CrawlStatus.mark_failed(error) at time t
mark_failed(st, error, t) ==
    [st EXCEPT !.status = "failed", !.completed_at = t,
               !.errors = Append(@, error)]

\* CrawlStatus.add_error(error)
add_error(st, error) == [st EXCEPT !.errors = Append(@, error)]

(* ------------------------- MusicBrainzClient --------------------------- *)
\* What the network answers.  A search: failure, or n ranked candidates.
\* A browse of release groups: failure, or release groups, each with or
\* without a release and with a release year.  A release lookup: failure,
\* or n tracks.
Years == {NoYear, 1, 2}
TrackDurations == {NoDur, 1000}

SearchAnswers ==
    {[failed |-> TRUE, n |-> 0]} \cup {[failed |-> FALSE, n |-> n] : n \in 0..MaxCandidates}

\* a release group: whether its release-list is non-empty, whether its
\* first release carries an 'id', and the year of that release's date
ReleaseGroups(i) ==
    {[id |-> i, has_release |-> h, has_release_id |-> r, year |-> y] :
        h \in BOOLEAN, r \in BOOLEAN, y \in Years}

BrowseAnswers ==
    {[failed |-> TRUE, rgs |-> <<>>]} \cup
    {[failed |-> FALSE, rgs |-> rgs] :
        rgs \in UNION {{s \in [1..n -> UNION {ReleaseGroups(i) : i \in 1..n}] :
                           \A i \in 1..n :
                               /\ s[i].id = i
                               /\ ~s[i].has_release =>
                                      (s[i].year = NoYear /\ ~s[i].has_release_id)}
                       : n \in 0..MaxAlbums}}

TracksAnswers ==
    {[failed |-> TRUE, n |-> 0, dur |-> NoDur]} \cup
    {[failed |-> FALSE, n |-> n, dur |-> d] :
        n \in 0..MaxTracks, d \in TrackDurations}

\* MusicBrainzClient.search_artist: every exception is caught and logged,
\* and the empty list returned
search_artist(artist_name, net) ==
    IF net.failed THEN <<>>
    ELSE [j \in 1..net.n |-> Artist(artist_name, j)]

\* MusicBrainzClient.get_album_tracks: every exception is caught and
\* logged, and the empty list returned
get_album_tracks(net) ==
    IF net.failed THEN <<>>
    ELSE [j \in 1..net.n |-> Track(j, net.dur)]

RECURSIVE ParseWithoutLookup(_, _)
\* the for loop of get_artist_discography up to the next release group
\* whose tracks are looked up.  _parse_release_group returns None for a
\* release group with no release, and an album without tracks, with no
\* lookup, for one whose first release has no 'id'
\* (`await self.get_album_tracks(release_id) if release_id else []`).
ParseWithoutLookup(rgs, albums) ==
    IF rgs = <<>> THEN [rgs |-> <<>>, albums |-> albums]
    ELSE IF ~Head(rgs).has_release
         THEN ParseWithoutLookup(Tail(rgs), albums)
         ELSE IF ~Head(rgs).has_release_id
              THEN ParseWithoutLookup(Tail(rgs),
                                      Append(albums, Album(Head(rgs), <<>>)))
              ELSE [rgs |-> rgs, albums |-> albums]

RECURSIVE InsertByYear(_, _)
InsertByYear(sorted, album) ==
    IF sorted = <<>> THEN <<album>>
    ELSE IF Head(sorted).release_year <= album.release_year
         THEN <<Head(sorted)>> \o InsertByYear(Tail(sorted), album)
         ELSE <<album>> \o sorted

RECURSIVE SortByYear(_)
\* albums.sort(key=lambda x: x.release_year or 0): a stable sort
SortByYear(albums) ==
    IF albums = <<>> THEN <<>>
    ELSE InsertByYear(SortByYear(SubSeq(albums, 1, Len(albums) - 1)),
                      albums[Len(albums)])

(* ---------------------------- LastFmClient ----------------------------- *)
\* album.getinfo's 'album' object: its tags (absent, a list, or a single
\* dict), its label and its tracks (absent, a list, or a single dict)
Payload(tagsKind, tags, hasLabel, label, tracksKind, tracks) ==
    [present |-> TRUE, tags_kind |-> tagsKind, tags |-> tags,
     has_label |-> hasLabel, label |-> label,
     tracks_kind |-> tracksKind, tracks |-> tracks]
NoPayload == [Payload("absent", <<>>, FALSE, NoLabel, "absent", <<>>)
                 EXCEPT !.present = FALSE]

\* a Last.fm track: whether it has a 'duration', whether int() parses it,
\* and the seconds it gives
LastFmTrack(hasDuration, parses, seconds) ==
    [has_duration |-> hasDuration, parses |-> parses, seconds |-> seconds]

Payloads ==
    {Payload("list", <<"rock">>, TRUE, "X", "list",
             <<LastFmTrack(TRUE, TRUE, 180)>>),
     Payload("absent", <<>>, FALSE, NoLabel, "absent", <<>>)}

\* What the network answers to album.getinfo: an exception, a status other
\* than 200 or a body without 'album' (a miss), or an album object.
LastFmAnswers ==
    {[kind |-> k, payload |-> NoPayload] : k \in {"error", "miss"}} \cup
    {[kind |-> "hit", payload |-> pl] : pl \in Payloads}

\* a lookup that never finds anything
GetAlbumInfoNever(net) == NoPayload
\* LastFmClient.get_album_info: None on an exception and on a miss
get_album_info(net) ==
    IF net.kind = "hit" THEN net.payload ELSE NoPayload

\* the client's session: "none" before the context is entered, then "open",
\* then "closed"
\* a context exit that does not close the session
AexitLeavingOpen(session) == session
\* LastFmClient.__aenter__: self.session = aiohttp.ClientSession(...)
aenter(session) == "open"
\* LastFmClient.__aexit__: if self.session: await self.session.close()
aexit(session) == IF session = "open" THEN "closed" ELSE session

(* ----------------------- DiscographyCrawler merge ---------------------- *)
\* `not x` for an Optional[int]
Falsy(duration_ms) == duration_ms = NoDur \/ duration_ms = 0

\* a track merge that drops the tracks beyond the enrichment list
EnhanceTracksTruncated(mb_tracks, lastfm_tracks) ==
    SubSeq(mb_tracks, 1, Min(Len(mb_tracks), Len(lastfm_tracks)))
\* DiscographyCrawler._enhance_tracks
enhance_tracks(mb_tracks, lastfm_tracks) ==
    [i \in 1..Len(mb_tracks) |->
        IF /\ i <= Len(lastfm_tracks)
           /\ lastfm_tracks[i].has_duration
           /\ Falsy(mb_tracks[i].duration_ms)
           /\ lastfm_tracks[i].parses
        THEN [mb_tracks[i] EXCEPT !.duration_ms = lastfm_tracks[i].seconds * 1000]
        ELSE mb_tracks[i]]

\* a merge that returns the canonical album as it is
MergeNothing(mb_album, lastfm_data) == mb_album
\* DiscographyCrawler._merge_album_data
merge_album_data(mb_album, lastfm_data) ==
    [mb_album EXCEPT
        !.genre = IF lastfm_data.tags_kind = "list"
                  THEN SubSeq(lastfm_data.tags, 1, Min(5, Len(lastfm_data.tags)))
                  ELSE IF lastfm_data.tags_kind = "dict"
                       THEN <<lastfm_data.tags[1]>>
                       ELSE @,
        !.label = IF @ = NoLabel /\ lastfm_data.has_label
                  THEN lastfm_data.label ELSE @,
        !.tracks = IF lastfm_data.tracks_kind = "list"
                   THEN enhance_tracks(@, lastfm_data.tracks)
                   ELSE @]

(* -------------------------- DiscographyCrawler ------------------------- *)
\* CrawlerError(f"Artista '{artist_name}' non trovato")
NotFoundErrorWithoutName(artist_name) ==
    [type |-> "CrawlerError", id |-> 0, msg |-> <<"Artista", "non trovato">>]
NotFoundError(artist_name) ==
    [type |-> "CrawlerError", id |-> 0,
     msg |-> <<"Artista", artist_name, "non trovato">>]

\* CrawlerError(f"Fallimento nel crawling per '{artist_name}': {e}")
CrawlFailure(artist_name, e) ==
    [type |-> "CrawlerError", id |-> 0,
     msg |-> <<"Fallimento nel crawling per", artist_name>> \o e.msg]

\* sources that always name both providers
SourcesBoth(key) == <<"MusicBrainz", "Last.fm">>
\* sources=["MusicBrainz"], and "Last.fm" appended if self.lastfm_api_key
Sources(key) == IF key THEN <<"MusicBrainz", "Last.fm">> ELSE <<"MusicBrainz">>

\* BaseCrawler.__init__: self.stats
NoStats ==
    [requests_made |-> 0, requests_successful |-> 0, requests_failed |-> 0]

\* a task's call of crawl(): its locals, where it is suspended, how it
\* ended, and what it has asked of the providers
CrawlIdle ==
    [pc              |-> "idle",
     pending         |-> "",          \* the call make_request is to issue
     artist_name     |-> "",
     primary_artist  |-> NoArtist,
     rgs             |-> <<>>,        \* release groups still to be parsed
     albums          |-> <<>>,        \* albums / mb_albums
     enhanced_albums |-> <<>>,
     outcome         |-> "none",      \* none, returned, raised
     discography     |-> NoDiscography,
     error           |-> NoError,
     own             |-> 0,           \* the CrawlStatus this crawl created
     search_calls    |-> 0,           \* history: calls of search_artist
     browse_calls    |-> 0,           \* history: get_artist_discography
     tracks_calls    |-> 0,           \* history: calls of get_album_tracks
     enrich_calls    |-> 0,           \* history: calls of get_album_info
     enrich_log      |-> <<>>,        \* history: what each lookup answered
     session         |-> "none",      \* the LastFmClient's session
     search_failed   |-> FALSE,       \* history: the search request failed
     search_empty    |-> FALSE,       \* history: the provider found nobody
     browse_failed   |-> FALSE]       \* history: the browse request failed

\* What a step of task p reads and writes.
World(p) ==
    [rl |-> rl, rt |-> rt[p], stats |-> stats, heap |-> statusObjs,
     cur |-> status, loc |-> c[p]]

\* make_request after acquire(): requests_made += 1, execute_with_retry
\* invokes func, which suspends in its network request
request_begin(w, call) ==
    [w EXCEPT !.stats.requests_made = @ + 1,
              !.rt = retry_start,
              !.loc.pc = call,
              !.loc.pending = "",
              !.loc.search_calls = IF call = "search_net" THEN @ + 1 ELSE @,
              !.loc.browse_calls = IF call = "browse_net" THEN @ + 1 ELSE @,
              !.loc.enrich_calls = IF call = "enrich_net" THEN @ + 1 ELSE @]

\* BaseCrawler.make_request(func): await self.rate_limiter.acquire() first
make_request(w, p, call) ==
    LET l2 == acquire(w.rl, p, now)
    IN  IF l2.apc[p] = "idle"
        THEN request_begin([w EXCEPT !.rl = l2], call)
        ELSE [w EXCEPT !.rl = l2, !.loc.pc = "acquire_wait",
                       !.loc.pending = call]

\* func returned: execute_with_retry returns its value, and make_request
\* counts a success.  (The provider clients catch every Exception, so func
\* never raises into execute_with_retry.)
request_ok(w) ==
    [w EXCEPT !.rt = retry_on_return(@, ""),
              !.stats.requests_successful = @ + 1]

\* get_artist_discography's `except Exception as e`
crawl_failed(w, e) ==
    LET w1 == IF w.cur # 0
              THEN [w EXCEPT !.heap[w.cur] = mark_failed(@, e.msg, now)]
              ELSE w
    IN  [w1 EXCEPT !.loc.pc = "ended",
                   !.loc.outcome = "raised",
                   !.loc.error = CrawlFailure(w.loc.artist_name, e)]

\* steps 4 and 5 of get_artist_discography
crawl_finish(w, enhanced_albums) ==
    LET d == Discography(w.loc.primary_artist, enhanced_albums,
                         Sources(lastfm_api_key))
    IN  [w EXCEPT !.heap[w.cur] =
                      mark_completed(
                          [@ EXCEPT !.tracks_found = SumTrackLens(enhanced_albums)],
                          now),
                  !.loc.enhanced_albums = enhanced_albums,
                  !.loc.pc = "ended",
                  !.loc.outcome = "returned",
                  !.loc.discography = d]

\* the for loop of _enhance_with_lastfm: the next album's make_request, or
\* the end of the loop, the exit of the client's context and the end of the
\* crawl
enrich_next(w, p) ==
    IF Len(w.loc.enhanced_albums) < Len(w.loc.albums)
    THEN make_request(w, p, "enrich_net")
    ELSE crawl_finish([w EXCEPT !.loc.session = aexit(@)],
                      w.loc.enhanced_albums)

\* get_artist_discography (the client's) has returned mb_albums
fetch_done(w, p, mb_albums) ==
    LET w1 == request_ok(w)
        w2 == [w1 EXCEPT !.heap[w1.cur].albums_found = Len(mb_albums),
                         !.loc.albums = mb_albums,
                         !.loc.rgs = <<>>,
                         !.loc.enhanced_albums = <<>>]
    IN  IF lastfm_api_key
        THEN enrich_next([w2 EXCEPT !.loc.session = aenter(@)], p)
        ELSE crawl_finish(w2, mb_albums)

\* the for loop of the client's get_artist_discography: up to the next
\* release group whose first release has an id (its tracks are
\* requested), or to the sort and the return
parse_next(w, p) ==
    LET r == ParseWithoutLookup(w.loc.rgs, w.loc.albums)
    IN  IF r.rgs = <<>>
        THEN fetch_done(w, p, SortByYear(r.albums))
        ELSE [w EXCEPT !.loc.rgs = r.rgs,
                       !.loc.albums = r.albums,
                       !.loc.pc = "tracks_net",
                       !.loc.tracks_calls = @ + 1]

\* crawl(artist_name) up to its first suspension
start_crawl(w, p, artist_name) ==
    LET heap == Append(w.heap, CrawlStatus(artist_name, now))
    IN  make_request(
            [w EXCEPT !.heap = heap,
                      !.cur = Len(heap),
                      !.loc = [CrawlIdle EXCEPT !.artist_name = artist_name,
                                                !.own = Len(heap)]],
            p, "search_net")

\* the search request has answered
after_search(w, p, net) ==
    LET artists == search_artist(w.loc.artist_name, net)
        w1 == request_ok([w EXCEPT !.loc.search_failed = net.failed,
                                   !.loc.search_empty = ~net.failed /\ net.n = 0])
    IN  IF artists = <<>>
        THEN crawl_failed(w1, NotFoundError(w.loc.artist_name))
        ELSE make_request([w1 EXCEPT !.loc.primary_artist = artists[1]],
                          p, "browse_net")

\* the browse request has answered
after_browse(w, p, net) ==
    IF net.failed
    THEN fetch_done([w EXCEPT !.loc.browse_failed = TRUE], p, <<>>)
    ELSE parse_next([w EXCEPT !.loc.rgs = net.rgs, !.loc.albums = <<>>], p)

\* the release lookup for the first pending release group has answered
after_tracks(w, p, net) ==
    LET album == Album(Head(w.loc.rgs), get_album_tracks(net))
    IN  parse_next([w EXCEPT !.loc.albums = Append(@, album),
                             !.loc.rgs = Tail(@)], p)

\* album.getinfo has answered for the next album
after_enrich(w, p, net) ==
    LET lastfm_album == get_album_info(net)
        album == w.loc.albums[Len(w.loc.enhanced_albums) + 1]
        w1 == request_ok([w EXCEPT !.loc.enrich_log = Append(@, net)])
    IN  IF lastfm_album.present
        THEN [w1 EXCEPT !.loc.enhanced_albums =
                            Append(@, merge_album_data(album, lastfm_album)),
                        !.loc.pc = "enrich_pause"]
        ELSE enrich_next([w1 EXCEPT !.loc.enhanced_albums = Append(@, album)], p)

(* ------------------- RateSpec: concurrent acquire() -------------------- *)
IdleCrawl ==
    /\ lastfm_api_key = FALSE
    /\ stats = NoStats
    /\ statusObjs = <<>>
    /\ status = 0
    /\ c = [p \in Tasks |-> CrawlIdle]

IdleRetry ==
    /\ retry_manager = RetryManager(0, DefaultBaseDelay, DefaultMaxDelay)
    /\ rt = [p \in Tasks |-> RetryIdle]
    /\ op = [always |-> FALSE, k |-> 0]

RateInit ==
    /\ now = 0
    /\ \E m \in 1..MaxReq, w \in 1..MaxWindow : rl = RateLimiter(m, w)
    /\ IdleRetry
    /\ IdleCrawl
    /\ apiCall = NoCall

\* a task calls rate_limiter.acquire()
Acquire(p) ==
    /\ rl.apc[p] = "idle"
    /\ rl' = acquire(rl, p, now)
    /\ UNCHANGED <<now, retry_manager, rt, op, crawlVars>>

\* asyncio.sleep(sleep_time) is over: `return await self.acquire()`, the
\* recursive call, made while this task still holds the lock
WakeUp(p) ==
    /\ rl.apc[p] = "sleeping"
    /\ now >= rl.wake[p]
    /\ rl' = acquire(rl, p, now)
    /\ UNCHANGED <<now, retry_manager, rt, op, crawlVars>>

\* time passes
Tick ==
    /\ now < MaxTime
    /\ now' = now + 1
    /\ UNCHANGED <<rl, retry_manager, rt, op, crawlVars>>

RateNext ==
    \/ \E p \in Tasks : Acquire(p)
    \/ \E p \in Tasks : WakeUp(p)
    \/ Tick

RateSpec == RateInit /\ [][RateNext]_vars

\* The event loop resumes a task whose sleep is over, and time passes.
FairRateSpec ==
    /\ RateInit
    /\ [][RateNext]_vars
    /\ WF_vars(Tick)
    /\ \A p \in Tasks : WF_vars(WakeUp(p))

(* ---------------- RetrySpec: execute_with_retry(op) -------------------- *)
RetryTask == 1
CrawlTask == 1
Success == "success"

\* the exception the operation raises at its i-th invocation
OpError(i) == [type |-> "OpError", id |-> i, msg |-> <<"operation failed">>]

\* whether the operation raises at its i-th invocation
OpFails(i) == op.always \/ i <= op.k

RetryInit ==
    /\ now = 0
    /\ rl = RateLimiter(1, 1)
    /\ \E m \in 0..MaxRetries, b \in 1..MaxBase, d \in 1..MaxDelayCap :
           retry_manager = RetryManager(m, b, d)
    /\ rt = [p \in Tasks |-> RetryIdle]
    /\ \/ op = [always |-> TRUE, k |-> 0]
       \/ \E k \in 0..MaxFailures : op = [always |-> FALSE, k |-> k]
    /\ IdleCrawl
    /\ apiCall = NoCall

\* the task calls execute_with_retry(op)
ExecuteWithRetry ==
    /\ rt[RetryTask].pc = "idle"
    /\ rt' = [rt EXCEPT ![RetryTask] = retry_start]
    /\ UNCHANGED <<now, rl, retry_manager, op, crawlVars>>

\* one invocation of the operation, up to the next suspension
Invoke ==
    /\ rt[RetryTask].pc = "call"
    /\ LET r == rt[RetryTask]
           i == r.invocations + 1
       IN  rt' = [rt EXCEPT ![RetryTask] =
                     IF OpFails(i)
                     THEN retry_on_raise(retry_manager, r, OpError(i), now)
                     ELSE retry_on_return(r, Success)]
    /\ UNCHANGED <<now, rl, retry_manager, op, crawlVars>>

\* the backoff sleep is over
Backoff ==
    /\ rt[RetryTask].pc = "backoff"
    /\ now >= rt[RetryTask].wake
    /\ rt' = [rt EXCEPT ![RetryTask] = retry_after_sleep(@)]
    /\ UNCHANGED <<now, rl, retry_manager, op, crawlVars>>

RetryNext ==
    \/ ExecuteWithRetry
    \/ Invoke
    \/ Backoff
    \/ Tick

RetrySpec == RetryInit /\ [][RetryNext]_vars

(* ------------- MergeSpec: _merge_album_data(album, payload) ------------ *)
\* durations of canonical tracks: absent, or int(track_data['length']),
\* which is 0 for a length of '0'
CanonicalDurations == {NoDur, 0, 1000}

\* canonical track lists: track i at position i, any duration
CanonicalTracks ==
    UNION {{tr \in [1..n -> {Track(i, d) : i \in 1..n, d \in CanonicalDurations}] :
               \A i \in 1..n : tr[i].track_number = i}
           : n \in 0..MaxTracks}

\* canonical albums (Album objects): with or without a label and genres
CanonicalAlbums ==
    {[Album([id |-> 1, has_release |-> TRUE, has_release_id |-> TRUE,
             year |-> 1], tr)
         EXCEPT !.label = l, !.genre = g] :
        tr \in CanonicalTracks, l \in {NoLabel, "Y"}, g \in {<<>>, <<"jazz">>}}

\* Last.fm tracks: without 'duration', with one int() rejects, with one it
\* parses
LastFmTracks ==
    {LastFmTrack(FALSE, FALSE, 0), LastFmTrack(TRUE, FALSE, 0),
     LastFmTrack(TRUE, TRUE, 180), LastFmTrack(TRUE, TRUE, 200)}

LastFmTrackLists ==
    UNION {[1..n -> LastFmTracks] : n \in 0..MaxTracks}

\* album.getinfo payloads: tags absent, a list or a single dict; label
\* absent or "X"; tracks absent, a list or a single dict
MergePayloads ==
    {Payload(tk, IF tk = "absent" THEN <<>> ELSE <<"rock">>,
             hl, IF hl THEN "X" ELSE NoLabel, "list", lt) :
        tk \in {"absent", "list", "dict"}, hl \in BOOLEAN,
        lt \in LastFmTrackLists}
    \cup
    {Payload(tk, IF tk = "absent" THEN <<>> ELSE <<"rock">>,
             hl, IF hl THEN "X" ELSE NoLabel, trk,
             IF trk = "dict" THEN <<LastFmTrack(TRUE, TRUE, 180)>> ELSE <<>>) :
        tk \in {"absent", "list", "dict"}, hl \in BOOLEAN,
        trk \in {"absent", "dict"}}

MergeInit ==
    /\ now = 0
    /\ rl = RateLimiter(1, 1)
    /\ IdleRetry
    /\ IdleCrawl
    /\ \E a \in CanonicalAlbums, pl \in MergePayloads :
           apiCall = [name |-> "merge_album_data", mb_album |-> a,
                      lastfm_data |-> pl, returned |-> FALSE, result |-> a]

\* await self._merge_album_data(mb_album, lastfm_data)
MergeAlbumData ==
    /\ apiCall.name = "merge_album_data"
    /\ ~apiCall.returned
    /\ apiCall' = [apiCall EXCEPT
                      !.result = merge_album_data(apiCall.mb_album,
                                                  apiCall.lastfm_data),
                      !.returned = TRUE]
    /\ UNCHANGED <<now, rl, retry_manager, rt, op, lastfm_api_key, stats,
                   statusObjs, status, c>>

MergeNext == MergeAlbumData

MergeSpec == MergeInit /\ [][MergeNext]_vars

(* ----------------------------- Spec: crawl() --------------------------- *)
ArtistNames == {"Nirvana"}

\* DiscographyCrawler(lastfm_api_key, rate_limit_requests), the window and
\* max_retries left at their defaults
Init ==
    /\ now = 0
    /\ \E m \in (1..MaxReq) \cup {DefaultRateLimit} :
           rl = RateLimiter(m, DefaultRateWindow)
    /\ retry_manager = RetryManager(DefaultMaxRetries, DefaultBaseDelay, DefaultMaxDelay)
    /\ rt = [p \in Tasks |-> RetryIdle]
    /\ op = [always |-> FALSE, k |-> 0]
    /\ lastfm_api_key \in BOOLEAN
    /\ stats = NoStats
    /\ statusObjs = <<>>
    /\ status = 0
    /\ c = [p \in Tasks |-> CrawlIdle]
    /\ apiCall = NoCall

\* the step of task p leaves the crawler in world w
Store(p, w) ==
    /\ rl' = w.rl
    /\ rt' = [rt EXCEPT ![p] = w.rt]
    /\ stats' = w.stats
    /\ statusObjs' = w.heap
    /\ status' = w.cur
    /\ c' = [c EXCEPT ![p] = w.loc]
    /\ UNCHANGED <<now, retry_manager, op, lastfm_api_key>>

\* the step of task p ends in world w
Apply(p, w) == Store(p, w) /\ UNCHANGED apiCall

NoCrawlRunning == \A q \in Tasks : c[q].pc \in {"idle", "ended"}

\* the caller awaits crawler.crawl(name)
StartCrawl(p) ==
    /\ NoCrawlRunning
    /\ c[p].pc = "idle"
    /\ \E name \in ArtistNames : Apply(p, start_crawl(World(p), p, name))

SearchReturn(p) ==
    /\ c[p].pc = "search_net"
    /\ \E net \in SearchAnswers : Apply(p, after_search(World(p), p, net))

BrowseReturn(p) ==
    /\ c[p].pc = "browse_net"
    /\ \E net \in BrowseAnswers : Apply(p, after_browse(World(p), p, net))

TracksReturn(p) ==
    /\ c[p].pc = "tracks_net"
    /\ \E net \in TracksAnswers : Apply(p, after_tracks(World(p), p, net))

EnrichReturn(p) ==
    /\ c[p].pc = "enrich_net"
    /\ \E net \in LastFmAnswers : Apply(p, after_enrich(World(p), p, net))

\* `await asyncio.sleep(0.1)` after a merge is over
EnrichPause(p) ==
    /\ c[p].pc = "enrich_pause"
    /\ Apply(p, enrich_next(World(p), p))

Next ==
    \/ StartCrawl(CrawlTask)
    \/ SearchReturn(CrawlTask)
    \/ BrowseReturn(CrawlTask)
    \/ TracksReturn(CrawlTask)
    \/ EnrichReturn(CrawlTask)
    \/ EnrichPause(CrawlTask)

Spec == Init /\ [][Next]_vars

(* -------------- TotalsSpec: Discography.total_albums/tracks ------------ *)
\* discographies of up to MaxAlbums albums, each of up to MaxTracks tracks
Discographies ==
    {Discography(Artist("Nirvana", 1), albums, <<"MusicBrainz">>) :
        albums \in UNION {[1..n -> {a \in CanonicalAlbums :
                                       a.label = NoLabel /\ a.genre = <<>>}]
                          : n \in 0..MaxAlbums}}

TotalsInit ==
    /\ now = 0
    /\ rl = RateLimiter(1, 1)
    /\ IdleRetry
    /\ IdleCrawl
    /\ \E d \in Discographies :
           apiCall = [name |-> "totals", d |-> d, returned |-> FALSE,
                      total_albums |-> 0, total_tracks |-> 0]

\* d.total_albums and d.total_tracks are read
ReadTotals ==
    /\ apiCall.name = "totals"
    /\ ~apiCall.returned
    /\ apiCall' = [apiCall EXCEPT !.total_albums = total_albums(apiCall.d),
                                  !.total_tracks = total_tracks(apiCall.d),
                                  !.returned = TRUE]
    /\ UNCHANGED <<now, rl, retry_manager, rt, op, lastfm_api_key, stats,
                   statusObjs, status, c>>

TotalsNext == ReadTotals

TotalsSpec == TotalsInit /\ [][TotalsNext]_vars

(* ------------------- CancelSpec: crawl() and task.cancel() ------------- *)
\* asyncio.CancelledError: a BaseException, not an Exception
CancelledError == [type |-> "CancelledError", id |-> 0, msg |-> <<>>]

\* where a crawl can be suspended
Suspended ==
    {"acquire_wait", "search_net", "browse_net", "tracks_net", "enrich_net",
     "enrich_pause"}

\* The slip of holding the lock with acquire()/release() instead of
\* `async with`: a cancelled task keeps the lock.
CancelKeepingLock(l, p) ==
    [l EXCEPT !.lockWaiters = SelectSeq(@, LAMBDA q : q # p),
              !.apc[p] = "idle"]

\* CancelledError raised in acquire(): `async with self._lock` releases the
\* lock if task p holds it, and p leaves the lock's queue
cancel_acquire(l, p) ==
    [l EXCEPT !.lockHolder = IF @ = p THEN NoTask ELSE @,
              !.lockWaiters = SelectSeq(@, LAMBDA q : q # p),
              !.apc[p] = "idle"]

\* CancelledError raised inside execute_with_retry, in func or in the
\* backoff sleep: `except Exception` does not catch it, so it leaves the
\* loop at once
cancel_retry(r) ==
    IF r.pc = "call"
    THEN [r EXCEPT !.pc = "raised", !.raised = CancelledError,
                   !.invocations = @ + 1]
    ELSE IF r.pc = "backoff"
         THEN [r EXCEPT !.pc = "raised", !.raised = CancelledError]
         ELSE r

\* CancelledError raised at the await where task p's crawl is suspended.
\* None of the `except Exception` handlers (execute_with_retry,
\* make_request, _enhance_with_lastfm, get_artist_discography) catches it:
\* nothing is retried or counted, the status is not marked, and only the
\* context managers run (the limiter's lock, the LastFmClient).
cancel_crawl(w, p) ==
    [w EXCEPT !.rl = cancel_acquire(@, p),
              !.rt = cancel_retry(@),
              !.loc.session = aexit(@),
              !.loc.pending = "",
              !.loc.pc = "ended",
              !.loc.outcome = "cancelled",
              !.loc.error = CancelledError]

\* the task running crawl() is cancelled
Cancel(p) ==
    /\ c[p].pc \in Suspended
    /\ Apply(p, cancel_crawl(World(p), p))

CancelNext ==
    \/ Next
    \/ Cancel(CrawlTask)

CancelSpec == Init /\ [][CancelNext]_vars

(* ----------------- StatusSpec: the methods of CrawlStatus --------------- *)
MaxErrors == 2      \* errors a status collects

\* what was seen of a status when it first became completed or failed
Observed(seen, st) ==
    IF seen.terminal \/ st.status = "in_progress" THEN seen
    ELSE [seen EXCEPT !.terminal = TRUE, !.status = st.status,
                      !.completed_at = st.completed_at]

\* self.status = CrawlStatus(artist_name=artist_name)
StatusInit ==
    /\ now = 0
    /\ rl = RateLimiter(1, 1)
    /\ IdleRetry
    /\ lastfm_api_key = FALSE
    /\ stats = NoStats
    /\ statusObjs = <<CrawlStatus("Nirvana", now)>>
    /\ status = 1
    /\ c = [p \in Tasks |-> CrawlIdle]
    /\ apiCall = [name |-> "CrawlStatus", terminal |-> FALSE,
                  status |-> "in_progress", completed_at |-> NoTime]

\* the status object becomes st
StatusBecomes(st) ==
    /\ statusObjs' = [statusObjs EXCEPT ![status] = st]
    /\ apiCall' = Observed(apiCall, st)
    /\ UNCHANGED <<now, rl, retry_manager, rt, op, lastfm_api_key, stats,
                   status, c>>

\* status.mark_completed()
MarkCompleted ==
    /\ status # 0
    /\ StatusBecomes(mark_completed(statusObjs[status], now))

\* status.mark_failed(error)
MarkFailed ==
    /\ Len(statusObjs[status].errors) < MaxErrors
    /\ StatusBecomes(mark_failed(statusObjs[status], <<"error">>, now))

\* status.add_error(error)
AddError ==
    /\ Len(statusObjs[status].errors) < MaxErrors
    /\ StatusBecomes(add_error(statusObjs[status], <<"error">>))

StatusNext ==
    \/ MarkCompleted
    \/ MarkFailed
    \/ AddError
    \/ Tick

StatusSpec == StatusInit /\ [][StatusNext]_vars

(* ------------- SearchSpec: search_artists(query, limit) ---------------- *)
MaxLimit == 3       \* search_artists' limit ranges over -MaxLimit..MaxLimit

\* s[:n]: the first n elements, or for a negative n all but the last -n
Take(s, n) ==
    IF n >= 0 THEN SubSeq(s, 1, Min(n, Len(s)))
    ELSE SubSeq(s, 1, IF Len(s) + n > 0 THEN Len(s) + n ELSE 0)

\* the statuses a crawler can hold when search_artists is called: none, or
\* the status of an earlier crawl, completed or failed
EarlierStatuses ==
    {<<>>,
     <<mark_completed([CrawlStatus("Nirvana", 0) EXCEPT !.albums_found = 1], 0)>>,
     <<mark_failed(CrawlStatus("Nirvana", 0), NotFoundError("Nirvana").msg, 0)>>}

SearchInit ==
    /\ now = 0
    /\ \E m \in (1..MaxReq) \cup {DefaultRateLimit} :
           rl = RateLimiter(m, DefaultRateWindow)
    /\ retry_manager = RetryManager(DefaultMaxRetries, DefaultBaseDelay, DefaultMaxDelay)
    /\ rt = [p \in Tasks |-> RetryIdle]
    /\ op = [always |-> FALSE, k |-> 0]
    /\ lastfm_api_key \in BOOLEAN
    /\ stats = NoStats
    /\ statusObjs \in EarlierStatuses
    /\ status = Len(statusObjs)
    /\ c = [p \in Tasks |-> CrawlIdle]
    /\ apiCall = [name |-> "search_artists", limit |-> 0, ranked |-> <<>>,
                  result |-> <<>>, returned |-> FALSE,
                  statusObjs |-> statusObjs, status |-> status]

\* search_artists(query, limit) up to its first suspension; limit is any
\* int (main.py hands over --limit as parsed)
SearchArtists(p) ==
    /\ c[p].pc = "idle"
    /\ \E query \in ArtistNames, limit \in (0 - MaxLimit)..MaxLimit :
          /\ Store(p, make_request(
                          [World(p) EXCEPT
                              !.loc = [CrawlIdle EXCEPT !.artist_name = query]],
                          p, "search_net"))
          /\ apiCall' = [apiCall EXCEPT !.limit = limit, !.returned = FALSE,
                                        !.ranked = <<>>, !.result = <<>>,
                                        !.statusObjs = statusObjs,
                                        !.status = status]

\* the search request has answered: return artists[:limit]
SearchArtistsReturn(p) ==
    /\ c[p].pc = "search_net"
    /\ \E net \in SearchAnswers :
          LET artists == search_artist(c[p].artist_name, net)
              w == request_ok(World(p))
          IN  /\ Store(p, [w EXCEPT !.loc.pc = "idle"])
              /\ apiCall' = [apiCall EXCEPT
                                !.ranked = artists,
                                !.result = Take(artists, apiCall.limit),
                                !.returned = TRUE]

SearchNext ==
    \/ SearchArtists(CrawlTask)
    \/ SearchArtistsReturn(CrawlTask)

SearchSpec == SearchInit /\ [][SearchNext]_vars

(* ------------------------------ claims --------------------------------- *)
\* number of recorded calls with a timestamp in the window (t - w, t]
RecordedInWindow(t, w) ==
    Cardinality({i \in DOMAIN rl.granted :
                    rl.granted[i] > t - w /\ rl.granted[i] <= t})

\* C1: under any interleaving of acquire() callers, the calls recorded
\* within any trailing time_window number at most max_requests.
C1_AtMostMaxPerWindow ==
    \A t \in 0..now : RecordedInWindow(t, rl.time_window) <= rl.max_requests

\* C1 witness: the window is full, a caller has been refused, and earlier
\* calls have already left the window (more than max_requests granted).
C1_Witness ==
    /\ RecordedInWindow(now, rl.time_window) = rl.max_requests
    /\ Len(rl.granted) > rl.max_requests
    /\ \E p \in Tasks : rl.apc[p] = "sleeping"

\* C2: an acquire() that found the window full and is suspended in its
\* sleep eventually records its call and returns: it never blocks forever.
C2_BlockedAcquireReturns ==
    \A p \in Tasks :
        (rl.apc[p] = "sleeping" /\ rl.wake[p] <= MaxTime) ~> (rl.apc[p] = "idle")

RetryEnded(r) == r.pc \in {"returned", "raised"}

\* C3: for an operation that raises on every invocation, the operation is
\* invoked max_retries+1 times, never more, and the call then raises the
\* error of the last invocation itself.
C3_LastErrorReraised ==
    LET r == rt[RetryTask]
    IN  op.always =>
          /\ r.invocations <= retry_manager.max_retries + 1
          /\ r.pc # "returned"
          /\ r.pc = "raised" =>
                /\ r.invocations = retry_manager.max_retries + 1
                /\ r.raised = OpError(retry_manager.max_retries + 1)

\* C3 witness: retries were made and the call has raised.
C3_Witness ==
    /\ op.always
    /\ retry_manager.max_retries >= 2
    /\ rt[RetryTask].pc = "raised"

\* C4: for an operation that fails k times and then succeeds, k within the
\* retry budget, the call returns the success value after exactly k+1
\* invocations and raises nothing.
C4_SucceedsAfterKFailures ==
    LET r == rt[RetryTask]
    IN  (~op.always /\ op.k <= retry_manager.max_retries) =>
          /\ r.pc # "raised"
          /\ r.raised = NoError
          /\ r.invocations <= op.k + 1
          /\ r.pc = "returned" =>
                /\ r.value = Success
                /\ r.invocations = op.k + 1

\* C4 witness: the operation failed max_retries (at least 2) times and the
\* call returned.
C4_Witness ==
    /\ ~op.always
    /\ op.k >= 2
    /\ op.k = retry_manager.max_retries
    /\ rt[RetryTask].pc = "returned"

\* C5: the wait before retry i (from 0) is min(base_delay * 2^i, max_delay);
\* the waits are non-decreasing and at most max_delay; there is one wait
\* per retry and none after the final failed attempt.
C5_BackoffDelays ==
    LET r == rt[RetryTask]
        rm == retry_manager
    IN  /\ \A i \in DOMAIN r.waits :
              /\ r.waits[i] = Min(rm.base_delay * 2^(i - 1), rm.max_delay)
              /\ r.waits[i] <= rm.max_delay
              /\ i > 1 => r.waits[i - 1] <= r.waits[i]
        /\ Len(r.waits) <= rm.max_retries
        /\ r.pc \in {"call", "backoff"} => Len(r.waits) = r.invocations
        /\ r.pc = "returned" => Len(r.waits) = r.invocations - 1
        /\ r.pc = "raised" =>
              /\ Len(r.waits) = r.invocations - 1
              /\ Len(r.waits) = rm.max_retries

\* C5 witness: two waits, the second larger and cut to max_delay, and the
\* final failure raised without a further wait.
C5_Witness ==
    LET r == rt[RetryTask]
    IN  /\ r.pc = "raised"
        /\ Len(r.waits) = 2
        /\ r.waits[1] < r.waits[2]
        /\ r.waits[2] = retry_manager.max_delay
        /\ retry_manager.base_delay * 2 > retry_manager.max_delay

Ended(p) == c[p].pc = "ended"

\* the CrawlStatus the crawler holds (self.status)
CurrentStatus == statusObjs[status]

\* C6: when crawl returns a Discography d, the CrawlStatus is 'completed'
\* with completed_at set, albums_found = d.total_albums, tracks_found =
\* d.total_tracks, and errors is empty.
C6_SuccessStatus ==
    \A p \in Tasks :
        c[p].outcome = "returned" =>
            /\ status = c[p].own
            /\ CurrentStatus.status = "completed"
            /\ CurrentStatus.completed_at # NoTime
            /\ CurrentStatus.albums_found = total_albums(c[p].discography)
            /\ CurrentStatus.tracks_found = total_tracks(c[p].discography)
            /\ CurrentStatus.errors = <<>>

\* C6 witness: a crawl with enrichment returned two albums, one of them
\* merged with Last.fm data, with tracks.
C6_Witness ==
    \E p \in Tasks :
        /\ c[p].outcome = "returned"
        /\ lastfm_api_key
        /\ total_albums(c[p].discography) = 2
        /\ total_tracks(c[p].discography) >= 1
        /\ \E i \in 1..2 : c[p].discography.albums[i].label = "X"

\* C7: a crawl that has ended has either returned a Discography or raised
\* a CrawlerError whose message carries the artist name and the cause's
\* message; in the error outcome the CrawlStatus is 'failed', completed_at
\* is set and exactly one error string, the cause's message, was appended.
C7_FailureOutcome ==
    \A p \in Tasks :
        /\ Ended(p) <=> c[p].outcome \in {"returned", "raised"}
        /\ c[p].outcome = "returned" => c[p].error = NoError
        /\ c[p].outcome = "raised" =>
              /\ c[p].discography = NoDiscography
              /\ c[p].error.type = "CrawlerError"
              /\ status = c[p].own
              /\ CurrentStatus.status = "failed"
              /\ CurrentStatus.completed_at # NoTime
              /\ Len(CurrentStatus.errors) = 1
              /\ CurrentStatus.errors[1] # <<>>
              /\ c[p].error.msg =
                    <<"Fallimento nel crawling per", c[p].artist_name>>
                        \o CurrentStatus.errors[1]

\* C7 witness: a crawl has raised.
C7_Witness ==
    \E p \in Tasks : Ended(p) /\ c[p].outcome = "raised"

\* C8: when the primary provider returns an empty candidate list, the crawl
\* fails with a not-found error carrying the queried name, the search was
\* invoked once, and no discography or enrichment call was made.
C8_EmptySearchNotFound ==
    \A p \in Tasks :
        c[p].search_empty =>
            /\ Ended(p)
            /\ c[p].outcome = "raised"
            /\ CurrentStatus.errors =
                  << <<"Artista", c[p].artist_name, "non trovato">> >>
            /\ c[p].error.msg =
                  <<"Fallimento nel crawling per", c[p].artist_name,
                    "Artista", c[p].artist_name, "non trovato">>
            /\ c[p].search_calls = 1
            /\ c[p].browse_calls = 0
            /\ c[p].enrich_calls = 0
            /\ stats.requests_made = 1

\* C8 witness: the provider answered the search with no candidate.
C8_Witness ==
    \E p \in Tasks : c[p].search_empty /\ ~c[p].search_failed /\ Ended(p)

\* the exception of a failed network request
NetworkError == [type |-> "NetworkError", id |-> 0, msg |-> <<"network error">>]

\* C9: a primary-provider request (search or browse) that fails is attempted
\* max_retries+1 times, and the crawl then fails with that network error
\* surfaced.
C9_TransientFailureRetried ==
    \A p \in Tasks :
        Ended(p) =>
            /\ c[p].search_failed =>
                  /\ c[p].search_calls = retry_manager.max_retries + 1
                  /\ c[p].outcome = "raised"
                  /\ CurrentStatus.errors = <<NetworkError.msg>>
            /\ c[p].browse_failed =>
                  /\ c[p].browse_calls = retry_manager.max_retries + 1
                  /\ c[p].outcome = "raised"
                  /\ CurrentStatus.errors = <<NetworkError.msg>>

\* C10: when the release-group fetch fails, the crawl returns no
\* Discography and the CrawlStatus ends 'failed'.
C10_FetchErrorFatal ==
    \A p \in Tasks :
        (Ended(p) /\ c[p].browse_failed) =>
            /\ c[p].outcome = "raised"
            /\ c[p].discography = NoDiscography
            /\ CurrentStatus.status = "failed"

\* C11: whatever the enrichment lookups answer (miss, error or hit), the
\* crawl does not fail once the albums are fetched; the enriched list follows
\* the canonical list album by album in the same order; an album whose
\* lookup missed or failed is the canonical album itself, and an album whose
\* lookup hit carries the payload's label and tags.
C11_EnrichmentIsolated ==
    \A p \in Tasks :
        LET l == c[p]
        IN  /\ l.browse_calls > 0 => l.outcome # "raised"
            /\ lastfm_api_key =>
                  /\ Len(l.enrich_log) = Len(l.enhanced_albums)
                  /\ Len(l.enhanced_albums) <= Len(l.albums)
                  /\ \A i \in DOMAIN l.enhanced_albums :
                        /\ l.enhanced_albums[i].title = l.albums[i].title
                        /\ l.enrich_log[i].kind # "hit" =>
                              l.enhanced_albums[i] = l.albums[i]
                        /\ l.enrich_log[i].kind = "hit" =>
                              LET pl == l.enrich_log[i].payload
                              IN  /\ pl.has_label =>
                                        l.enhanced_albums[i].label = pl.label
                                  /\ pl.tags_kind = "list" =>
                                        l.enhanced_albums[i].genre = pl.tags
            /\ l.outcome = "returned" =>
                  /\ Len(l.discography.albums) = Len(l.albums)
                  /\ \A i \in DOMAIN l.albums :
                        l.discography.albums[i].title = l.albums[i].title

\* C11 witness: a crawl returned two albums; the lookup of the first raised
\* an error, the lookup of the second hit and its album was enriched.
C11_Witness ==
    \E p \in Tasks :
        /\ c[p].outcome = "returned"
        /\ Len(c[p].albums) = 2
        /\ Len(c[p].enrich_log) = 2
        /\ c[p].enrich_log[1].kind = "error"
        /\ c[p].enrich_log[2].kind = "hit"
        /\ c[p].discography.albums[1] = c[p].albums[1]
        /\ c[p].discography.albums[2].label = "X"

\* C12: a returned Discography lists exactly MusicBrainz without a Last.fm
\* key and exactly MusicBrainz, Last.fm with one, however the lookups went;
\* without a key no enrichment call is made, no session is opened and the
\* albums are returned as fetched.
C12_SourcesFollowKey ==
    \A p \in Tasks :
        /\ ~lastfm_api_key => c[p].enrich_calls = 0 /\ c[p].session = "none"
        /\ c[p].outcome = "returned" =>
              /\ lastfm_api_key =>
                    c[p].discography.sources = <<"MusicBrainz", "Last.fm">>
              /\ ~lastfm_api_key =>
                    /\ c[p].discography.sources = <<"MusicBrainz">>
                    /\ c[p].discography.albums = c[p].albums

\* C12 witness: with a key, a crawl returned two albums and none of the
\* lookups succeeded.
C12_Witness ==
    \E p \in Tasks :
        /\ lastfm_api_key
        /\ c[p].outcome = "returned"
        /\ Len(c[p].discography.albums) = 2
        /\ c[p].enrich_calls = 2
        /\ \A i \in 1..2 : c[p].enrich_log[i].kind # "hit"

\* the merge call has returned
Merged == apiCall.name = "merge_album_data" /\ apiCall.returned

\* C13: merging a payload that has label X into a canonical album without a
\* label gives label X; into a canonical album with label Y it keeps Y.
C13_LabelFilledOnlyWhenAbsent ==
    (Merged /\ apiCall.lastfm_data.has_label) =>
        /\ apiCall.mb_album.label = NoLabel =>
              apiCall.result.label = apiCall.lastfm_data.label
        /\ apiCall.mb_album.label # NoLabel =>
              apiCall.result.label = apiCall.mb_album.label

\* C13 witness: a canonical album without a label was merged with a payload
\* of label X and came out with label X.
C13_Witness ==
    /\ Merged
    /\ apiCall.mb_album.label = NoLabel
    /\ apiCall.lastfm_data.has_label
    /\ apiCall.result.label = "X"

\* C14: the merge changes no canonical album field that already has a value:
\* title and release year stay, a present label stays and a non-empty genre
\* list stays, whatever the payload carries.
C14_NonDestructiveOverlay ==
    Merged =>
        /\ apiCall.result.title = apiCall.mb_album.title
        /\ apiCall.result.release_year = apiCall.mb_album.release_year
        /\ apiCall.mb_album.label # NoLabel =>
              apiCall.result.label = apiCall.mb_album.label
        /\ apiCall.mb_album.genre # <<>> =>
              apiCall.result.genre = apiCall.mb_album.genre

\* the enrichment track paired with canonical track i fills a duration
Fills(i) ==
    /\ apiCall.lastfm_data.tracks_kind = "list"
    /\ i <= Len(apiCall.lastfm_data.tracks)
    /\ apiCall.lastfm_data.tracks[i].has_duration
    /\ apiCall.lastfm_data.tracks[i].parses

\* C15: a canonical track whose duration_ms is present (any value, 0
\* included) keeps it; an absent duration becomes seconds * 1000 of the
\* paired enrichment track when that one has a duration that parses, and
\* stays absent otherwise.
C15_DurationFilledOnlyWhenAbsent ==
    Merged =>
        \A i \in DOMAIN apiCall.mb_album.tracks :
            LET before == apiCall.mb_album.tracks[i].duration_ms
                after == apiCall.result.tracks[i].duration_ms
            IN  /\ before # NoDur => after = before
                /\ before = NoDur =>
                      after = IF Fills(i)
                              THEN apiCall.lastfm_data.tracks[i].seconds * 1000
                              ELSE NoDur

\* C16: the merged track list has the length and order of the canonical
\* list; title and track_number are unchanged; track i takes its duration
\* from canonical track i or from enrichment track i only; a canonical track
\* beyond the enrichment list, or merged with a payload whose tracks are not
\* a list, is returned as it is.
C16_PositionalTrackMerge ==
    Merged =>
        LET mb == apiCall.mb_album.tracks
            lf == apiCall.lastfm_data.tracks
            out == apiCall.result.tracks
        IN  /\ Len(out) = Len(mb)
            /\ \A i \in DOMAIN mb :
                  /\ out[i].title = mb[i].title
                  /\ out[i].track_number = mb[i].track_number
                  /\ \/ out[i].duration_ms = mb[i].duration_ms
                     \/ /\ apiCall.lastfm_data.tracks_kind = "list"
                        /\ i <= Len(lf)
                        /\ out[i].duration_ms = lf[i].seconds * 1000
                  /\ (apiCall.lastfm_data.tracks_kind # "list" \/ i > Len(lf)) =>
                        out[i] = mb[i]

\* C16 witness: two canonical tracks without duration merged with a list of
\* one enrichment track: the first took its duration, the second is as it
\* was.
C16_Witness ==
    /\ Merged
    /\ Len(apiCall.mb_album.tracks) = 2
    /\ apiCall.lastfm_data.tracks_kind = "list"
    /\ Len(apiCall.lastfm_data.tracks) = 1
    /\ apiCall.mb_album.tracks[1].duration_ms = NoDur
    /\ apiCall.mb_album.tracks[2].duration_ms = NoDur
    /\ apiCall.result.tracks[1].duration_ms = 200000
    /\ apiCall.result.tracks[2] = apiCall.mb_album.tracks[2]

\* C17: a status starts 'in_progress', and from the moment it is
\* 'completed' or 'failed' no mark_completed, mark_failed or add_error
\* changes its status or its completed_at.
C17_StatusOneWay ==
    /\ ~apiCall.terminal => CurrentStatus.status = "in_progress"
    /\ apiCall.terminal =>
          /\ CurrentStatus.status = apiCall.status
          /\ CurrentStatus.completed_at = apiCall.completed_at

\* C18: search_artists(query, limit) returns at most limit candidates (none
\* when limit is below 1), the first ones in the provider's ranking order;
\* it makes the search call only, no discography or enrichment call, and
\* leaves the crawler's CrawlStatus as it was.
C18_SearchArtistsOnly ==
    /\ statusObjs = apiCall.statusObjs
    /\ status = apiCall.status
    /\ \A p \in Tasks : c[p].browse_calls = 0 /\ c[p].enrich_calls = 0
    /\ apiCall.returned =>
          /\ Len(apiCall.result) <= (IF apiCall.limit > 0 THEN apiCall.limit ELSE 0)
          /\ apiCall.limit >= 0 =>
                Len(apiCall.result) = Min(apiCall.limit, Len(apiCall.ranked))
          /\ \A i \in DOMAIN apiCall.result :
                apiCall.result[i] = apiCall.ranked[i]
          /\ c[CrawlTask].search_calls = 1

\* C19: the Last.fm session is opened when the enrichment pass enters the
\* client's context and is open only while the pass is running; when the
\* crawl has ended, by returning or by being cancelled inside the pass, the
\* session is closed.
C19_SessionClosedOnExit ==
    \A p \in Tasks :
        /\ c[p].session = "open" =>
              /\ lastfm_api_key
              /\ c[p].pc \in {"acquire_wait", "enrich_net", "enrich_pause"}
        /\ c[p].enrich_calls > 0 => c[p].session # "none"
        /\ Ended(p) => c[p].session # "open"
        /\ (c[p].outcome = "returned" /\ lastfm_api_key) =>
              c[p].session = "closed"

\* C19 witness: a crawl was cancelled during an enrichment lookup and its
\* session is closed.
C19_Witness ==
    \E p \in Tasks :
        /\ c[p].outcome = "cancelled"
        /\ c[p].enrich_calls >= 1
        /\ c[p].session = "closed"

\* C20: for every Discography d, albums without tracks included,
\* d.total_tracks is the number of tracks over all the albums of d and
\* d.total_albums is the number of albums.
C20_TotalsAreSums ==
    (apiCall.name = "totals" /\ apiCall.returned) =>
        LET albums == apiCall.d.albums
        IN  /\ apiCall.total_albums = Cardinality(DOMAIN albums)
            /\ apiCall.total_tracks =
                  Cardinality({<<i, j>> \in (1..MaxAlbums) \X (1..MaxTracks) :
                                  i \in DOMAIN albums /\ j \in DOMAIN albums[i].tracks})

\* C20 witness: a discography of an album without tracks and an album of two
\* tracks has two albums and two tracks.
C20_Witness ==
    /\ apiCall.name = "totals"
    /\ apiCall.returned
    /\ Len(apiCall.d.albums) = 2
    /\ apiCall.d.albums[1].tracks = <<>>
    /\ Len(apiCall.d.albums[2].tracks) = 2
    /\ apiCall.total_albums = 2
    /\ apiCall.total_tracks = 2

----------------------------------------------------------------------------
(* SpanSpec: Discography.discography_span is read on discographies whose   *)
(* albums carry any release year, or none.                                 *)

MaxYear == 6        \* release years range over 1..MaxYear

SeqMax(s) == CHOOSE x \in {s[i] : i \in DOMAIN s} :
                \A j \in DOMAIN s : x >= s[j]

\* years = [album.release_year for album in self.albums if album.release_year]
ReleaseYears(d) ==
    LET RECURSIVE Collect(_)
        Collect(i) ==
            IF i > Len(d.albums) THEN <<>>
            ELSE IF d.albums[i].release_year # NoYear
                 THEN <<d.albums[i].release_year>> \o Collect(i + 1)
                 ELSE Collect(i + 1)
    IN  Collect(1)

\* The slip of taking the first and last dated album instead of min and max.
SpanFirstLast(d) ==
    LET years == ReleaseYears(d)
    IN  IF years = <<>> THEN [start |-> NoYear, end |-> NoYear]
        ELSE [start |-> years[1], end |-> years[Len(years)]]

discography_span(d) ==
    LET years == ReleaseYears(d)
    IN  IF years = <<>> THEN [start |-> NoYear, end |-> NoYear]
        ELSE [start |-> SeqMin(years), end |-> SeqMax(years)]

SpanYears == {NoYear} \cup 1..MaxYear

SpanDiscographies ==
    {Discography(Artist("Nirvana", 1),
                 [i \in 1..n |-> Album([id |-> i, year |-> ys[i]], <<>>)],
                 <<"MusicBrainz">>) :
        n \in 0..MaxAlbums, ys \in [1..MaxAlbums -> SpanYears]}

SpanInit ==
    /\ now = 0
    /\ rl = RateLimiter(1, 1)
    /\ IdleRetry
    /\ IdleCrawl
    /\ \E d \in SpanDiscographies :
           apiCall = [name |-> "discography_span", d |-> d,
                      returned |-> FALSE,
                      span |-> [start |-> NoYear, end |-> NoYear]]

\* d.discography_span is read
ReadSpan ==
    /\ apiCall.name = "discography_span"
    /\ ~apiCall.returned
    /\ apiCall' = [apiCall EXCEPT !.span = discography_span(apiCall.d),
                                  !.returned = TRUE]
    /\ UNCHANGED <<now, rl, retry_manager, rt, op, lastfm_api_key, stats,
                   statusObjs, status, c>>

SpanNext == ReadSpan

SpanSpec == SpanInit /\ [][SpanNext]_vars

\* C21: the span read from a discography has start <= end, both being the
\* release year of some album, start the smallest and end the largest of
\* the albums' release years; when no album has a release year both are
\* empty.
C21_SpanIsMinMax ==
    (apiCall.name = "discography_span" /\ apiCall.returned) =>
        LET d == apiCall.d
            dated == {i \in DOMAIN d.albums : d.albums[i].release_year # NoYear}
            s == apiCall.span
        IN  IF dated = {}
            THEN s.start = NoYear /\ s.end = NoYear
            ELSE /\ s.start <= s.end
                 /\ \E i \in dated : d.albums[i].release_year = s.start
                 /\ \E i \in dated : d.albums[i].release_year = s.end
                 /\ \A i \in dated : /\ s.start <= d.albums[i].release_year
                                     /\ d.albums[i].release_year <= s.end

\* A span was read from a discography whose later album is the older one and
\* a span was read from one with an undated album next to a dated one.
C21_Witness ==
    /\ apiCall.name = "discography_span"
    /\ apiCall.returned
    /\ Len(apiCall.d.albums) = 2
    /\ apiCall.d.albums[1].release_year > apiCall.d.albums[2].release_year
    /\ apiCall.d.albums[2].release_year # NoYear
    /\ apiCall.span.start < apiCall.span.end

----------------------------------------------------------------------------
(* LyricsSpec: LyricsMetadataClient._extract_safe_metadata is applied to   *)
(* one provider song record.  A text is the sequence of its words (what    *)
(* str.split() returns).                                                   *)

MaxWords == 5       \* words of a title or of a description
SnippetWords == 3

Vocabulary == <<"w1", "w2", "w3", "w4", "w5", "w6", "w7", "w8">>
Words(k) == SubSeq(Vocabulary, 1, k)

NoSnippet == [present |-> FALSE, words |-> <<>>, ellipsis |-> FALSE]
Snippet(words, ellipsis) ==
    [present |-> TRUE, words |-> words, ellipsis |-> ellipsis]

\* description is absent, a dict without 'plain', a dict whose 'plain' is
\* not a string, or a dict whose 'plain' is a text
Descriptions ==
    {[kind |-> k, plain |-> <<>>] : k \in {"absent", "no_plain", "not_text"}}
    \cup {[kind |-> "plain", plain |-> Words(k)] : k \in 0..MaxWords}

SongTitles ==
    {[present |-> FALSE, words |-> <<>>]}
    \cup {[present |-> TRUE, words |-> Words(k)] : k \in 0..MaxWords}

SongRecords == [title : SongTitles, description : Descriptions]

\* f"Canzone: {song_data.get('title', 'N/A')}"
FallbackSnippet(song_data) ==
    Snippet(<<"Canzone:">> \o (IF song_data.title.present
                                THEN song_data.title.words ELSE <<"N/A">>),
            FALSE)

get_identification_snippet(song_data) ==
    LET description == song_data.description
        words == Take(description.plain, SnippetWords)
    IN  IF description.kind = "not_text" THEN NoSnippet
        ELSE IF description.kind = "plain" /\ Len(words) >= 2
             THEN Snippet(words, TRUE)
             ELSE FallbackSnippet(song_data)

extract_safe_metadata(song_data) ==
    LET snippet == get_identification_snippet(song_data)
    IN  [title                  |-> song_data.title,
         copyright_notice       |-> TRUE,
         fair_use_notice        |-> TRUE,
         identification_snippet |-> snippet,
         snippet_disclaimer     |-> snippet.present]

LyricsInit ==
    /\ now = 0
    /\ rl = RateLimiter(1, 1)
    /\ IdleRetry
    /\ IdleCrawl
    /\ \E s \in SongRecords :
           apiCall = [name |-> "extract_safe_metadata", song_data |-> s,
                      returned |-> FALSE,
                      result |-> [title |-> s.title,
                                  copyright_notice |-> FALSE,
                                  fair_use_notice |-> FALSE,
                                  identification_snippet |-> NoSnippet,
                                  snippet_disclaimer |-> FALSE]]

ExtractSafeMetadata ==
    /\ apiCall.name = "extract_safe_metadata"
    /\ ~apiCall.returned
    /\ apiCall' = [apiCall EXCEPT
                      !.result = extract_safe_metadata(apiCall.song_data),
                      !.returned = TRUE]
    /\ UNCHANGED <<now, rl, retry_manager, rt, op, lastfm_api_key, stats,
                   statusObjs, status, c>>

LyricsNext == ExtractSafeMetadata

LyricsSpec == LyricsInit /\ [][LyricsNext]_vars

\* C22: an identification snippet returned for a song record is at most
\* about 3 words long (one word more is tolerated), and a result that
\* carries a snippet also carries the copyright disclaimers.
C22_SnippetCappedWithDisclaimer ==
    (/\ apiCall.name = "extract_safe_metadata"
     /\ apiCall.returned
     /\ apiCall.result.identification_snippet.present) =>
        /\ Len(apiCall.result.identification_snippet.words) <= SnippetWords + 1
        /\ apiCall.result.copyright_notice
        /\ apiCall.result.snippet_disclaimer

----------------------------------------------------------------------------
(* ConcurrentSpec: two callers await crawl() on one DiscographyCrawler     *)
(* (built without a Last.fm key, default rate limit) and interleave at     *)
(* their suspension points.                                                *)

OtherTask == 2
Crawls == {CrawlTask, OtherTask}

ConcurrentInit ==
    /\ now = 0
    /\ rl = RateLimiter(DefaultRateLimit, DefaultRateWindow)
    /\ retry_manager = RetryManager(DefaultMaxRetries, DefaultBaseDelay, DefaultMaxDelay)
    /\ rt = [p \in Tasks |-> RetryIdle]
    /\ op = [always |-> FALSE, k |-> 0]
    /\ IdleCrawl
    /\ apiCall = NoCall

\* a caller awaits crawler.crawl(name), whatever the other caller is doing
StartConcurrentCrawl(p) ==
    /\ c[p].pc = "idle"
    /\ \E name \in ArtistNames : Apply(p, start_crawl(World(p), p, name))

ConcurrentNext ==
    \E p \in Crawls :
        \/ StartConcurrentCrawl(p)
        \/ SearchReturn(p)
        \/ BrowseReturn(p)
        \/ TracksReturn(p)

ConcurrentSpec == ConcurrentInit /\ [][ConcurrentNext]_vars

\* C23: with two crawls interleaved, the CrawlStatus a crawl created is
\* written by that crawl only: it stays in_progress while its crawl runs,
\* and once its crawl has ended it carries that crawl's terminal state and
\* that crawl's counts.
C23_StatusOwnedByItsCrawl ==
    \A p \in Crawls :
        c[p].pc # "idle" =>
            LET own == statusObjs[c[p].own]
            IN  /\ ~Ended(p) => own.status = "in_progress"
                /\ (Ended(p) /\ c[p].outcome = "returned") =>
                       /\ own.status = "completed"
                       /\ own.albums_found = total_albums(c[p].discography)
                       /\ own.tracks_found = total_tracks(c[p].discography)
                /\ (Ended(p) /\ c[p].outcome = "raised") =>
                       own.status = "failed"

----------------------------------------------------------------------------
\* the network calls crawl p has issued so far
NetworkCalls(p) ==
    c[p].search_calls + c[p].browse_calls + c[p].tracks_calls
        + c[p].enrich_calls

\* C24: every network call the crawl issues is preceded by its own
\* acquire(), so the calls issued within one window are as many as the
\* grants of the rate limiter at most, and never more than max_requests.
C24_EveryCallAcquires ==
    /\ NetworkCalls(CrawlTask) <= Len(rl.granted)
    /\ NetworkCalls(CrawlTask) <= rl.max_requests

----------------------------------------------------------------------------
(* ClientSpec: one provider client (LastFmClient or GeniusClient) whose    *)
(* caller enters it, calls its request method and exits it in any order.   *)
(* The session is "none" (the attribute is None), "open" or "closed" (the  *)
(* attribute still holds the closed aiohttp session).                      *)

MaxCalls == 3       \* method calls made on one client

\* `async with self.session.get(url)`: None has no attribute get, and a
\* closed aiohttp session raises before anything is sent
session_get(session) == IF session = "open" THEN "sent" ELSE "raised"

\* LastFmClient.get_album_info: has a request gone out?
lastfm_request_issued(session) ==
    IF session = "none" THEN FALSE
    ELSE session_get(session) = "sent"

\* GeniusClient.search_artist: has a request gone out?
genius_request_issued(session) == session_get(session) = "sent"

ClientKinds == {"LastFmClient", "GeniusClient"}

request_issued(kind, session) ==
    IF kind = "LastFmClient" THEN lastfm_request_issued(session)
    ELSE genius_request_issued(session)

ClientInit ==
    /\ now = 0
    /\ rl = RateLimiter(1, 1)
    /\ IdleRetry
    /\ IdleCrawl
    /\ \E k \in ClientKinds :
           apiCall = [name |-> "client", kind |-> k, session |-> "none",
                      pc |-> "idle",        \* idle, rate_limit, net
                      request |-> "",       \* the request the call is at
                      called |-> "none",    \* the session when the call began
                      calls |-> 0,          \* history: calls begun
                      log |-> <<>>,         \* history: requests reached
                      moves |-> {}]         \* history: session changes

ClientUnchanged ==
    UNCHANGED <<now, rl, retry_manager, rt, op, lastfm_api_key, stats,
                statusObjs, status, c>>

\* await client.__aenter__(), also while a call is suspended
ClientEnter ==
    /\ apiCall.name = "client"
    /\ LET session == aenter(apiCall.session)
       IN  apiCall' = [apiCall EXCEPT
                          !.session = session,
                          !.moves = IF session = apiCall.session THEN @
                                    ELSE @ \cup {<<apiCall.session, session>>}]
    /\ ClientUnchanged

\* await client.__aexit__(...), also while a call is suspended
ClientExit ==
    /\ apiCall.name = "client"
    /\ LET session == aexit(apiCall.session)
       IN  apiCall' = [apiCall EXCEPT
                          !.session = session,
                          !.moves = IF session = apiCall.session THEN @
                                    ELSE @ \cup {<<apiCall.session, session>>}]
    /\ ClientUnchanged

\* the method returns
client_return(call) == [call EXCEPT !.pc = "idle", !.request = ""]

\* the call reaches `async with self.session.get(...)` for a request with
\* the session as it is then: the request goes out and the call waits for
\* the answer, or nothing is sent and the method returns None
client_request(call, request) ==
    LET issued == request_issued(call.kind, call.session)
        logged == [call EXCEPT !.log = Append(@, [session    |-> call.called,
                                                  request    |-> request,
                                                  at_request |-> call.session,
                                                  issued     |-> issued])]
    IN  IF issued
        THEN [logged EXCEPT !.pc = "net", !.request = request]
        ELSE client_return(logged)

\* `await self._rate_limit()` ahead of a request: it sleeps, or goes on to
\* the request at once
client_rate_limit(call, request, sleeps) ==
    IF sleeps
    THEN [call EXCEPT !.pc = "rate_limit", !.request = request]
    ELSE client_request(call, request)

\* the request of a client's method: LastFmClient.get_album_info sends
\* album.getinfo with no await before it, GeniusClient.search_artist sends
\* /search after _rate_limit()
first_request(kind) ==
    IF kind = "LastFmClient" THEN "album.getinfo" ELSE "search"

\* await client.get_album_info(...) / await client.search_artist(...), up
\* to the first suspension
ClientCall ==
    /\ apiCall.name = "client"
    /\ apiCall.pc = "idle"
    /\ apiCall.calls < MaxCalls
    /\ \E sleeps \in BOOLEAN :
           \* only GeniusClient paces, and its first _rate_limit() finds
           \* last_request_time = 0 and no request times: it cannot sleep
           /\ sleeps => apiCall.kind = "GeniusClient" /\ apiCall.calls > 0
           /\ apiCall' = client_rate_limit(
                             [apiCall EXCEPT !.called = apiCall.session,
                                             !.calls = @ + 1],
                             first_request(apiCall.kind), sleeps)
    /\ ClientUnchanged

\* the sleep of _rate_limit() is over: the call goes on to its request
ClientCallWake ==
    /\ apiCall.name = "client"
    /\ apiCall.pc = "rate_limit"
    /\ apiCall' = client_request(apiCall, apiCall.request)
    /\ ClientUnchanged

\* the network answers the request in flight (hit: /search answered 200
\* with a hit that names an artist id; none: any other answer or an
\* error).  search_artist goes on into _get_artist_details on a hit; every
\* other request ends its method
ClientAnswer ==
    /\ apiCall.name = "client"
    /\ apiCall.pc = "net"
    /\ \E hit \in BOOLEAN, sleeps \in BOOLEAN :
           apiCall' = IF apiCall.request = "search" /\ hit
                      THEN client_rate_limit(apiCall, "artists", sleeps)
                      ELSE client_return(apiCall)
    /\ ClientUnchanged

ClientNext ==
    \/ ClientEnter
    \/ ClientExit
    \/ ClientCall
    \/ ClientCallWake
    \/ ClientAnswer

ClientSpec == ClientInit /\ [][ClientNext]_vars

\* C25: a client's session moves uninitialized -> open -> closed and no
\* other way, and a client method called before the session is opened or
\* after it has been closed issues no network request: every request that
\* goes out belongs to a call begun while the session was open, and leaves
\* while it is open.
C25_NoRequestOutsideSession ==
    apiCall.name = "client" =>
        /\ apiCall.moves \subseteq {<<"none", "open">>, <<"open", "closed">>}
        /\ \A i \in DOMAIN apiCall.log :
               apiCall.log[i].issued =>
                   /\ apiCall.log[i].session = "open"
                   /\ apiCall.log[i].at_request = "open"

----------------------------------------------------------------------------
(* CancellationSpec: the task either crawls or calls execute_with_retry    *)
(* on an operation of its own, and may be cancelled wherever it is         *)
(* suspended: in the rate limiter, in a provider call, in the enrichment   *)
(* loop, in the operation or in the backoff sleep.                         *)

\* the state holds a DiscographyCrawler (Init) rather than a RetryManager
\* used on its own (RetryInit, whose limiter is never used)
CrawlerBuilt == rl.time_window = DefaultRateWindow

\* the task awaiting execute_with_retry(op) is cancelled
CancelRetry ==
    /\ ~CrawlerBuilt
    /\ rt[RetryTask].pc \in {"call", "backoff"}
    /\ rt' = [rt EXCEPT ![RetryTask] = cancel_retry(@)]
    /\ UNCHANGED <<now, rl, retry_manager, op, crawlVars>>

CancellationInit == Init \/ RetryInit

CancellationNext ==
    \/ CrawlerBuilt /\ CancelNext
    \/ ~CrawlerBuilt /\ RetryNext
    \/ CancelRetry

CancellationSpec == CancellationInit /\ [][CancellationNext]_vars

\* C26: a cancellation delivered while the task is suspended is not
\* swallowed.  A cancelled crawl ends with CancelledError itself (no
\* CrawlerError, no discography), the enrichment loop has kept no original
\* album for the lookup that was cancelled, nothing is retried, and the
\* rate limiter's lock is free of the task; a cancelled execute_with_retry
\* raises CancelledError without a value and without a further invocation
\* or backoff.
C26_CancellationPropagates ==
    /\ c[CrawlTask].outcome = "cancelled" =>
           /\ Ended(CrawlTask)
           /\ c[CrawlTask].error = CancelledError
           /\ c[CrawlTask].discography = NoDiscography
           /\ Len(c[CrawlTask].enhanced_albums) = Len(c[CrawlTask].enrich_log)
           /\ rt[CrawlTask].pc \notin {"call", "backoff"}
           /\ rl.lockHolder # CrawlTask
           /\ \A i \in DOMAIN rl.lockWaiters : rl.lockWaiters[i] # CrawlTask
           /\ stats.requests_failed = 0
    /\ rt[RetryTask].raised = CancelledError =>
           /\ rt[RetryTask].pc = "raised"
           /\ rt[RetryTask].value = ""
           /\ rt[RetryTask].invocations <= Len(rt[RetryTask].waits) + 1

\* The crawl was cancelled while it waited in the rate limiter for its
\* browse request, holding the limiter's lock.
C26_Witness ==
    /\ c[CrawlTask].outcome = "cancelled"
    /\ c[CrawlTask].primary_artist # NoArtist
    /\ c[CrawlTask].browse_calls = 0
    /\ Len(rl.requests) = rl.max_requests
    /\ rl.lockHolder = NoTask

----------------------------------------------------------------------------
(* ParseSpec: one provider response of MusicBrainz is parsed: a list of    *)
(* artist candidates (search_artist), of release groups                    *)
(* (get_artist_discography) or of tracks (get_album_tracks).  An item is   *)
(* well formed, or malformed: building its entity raises.  A release group *)
(* has a first release with an id, dated or not, so its tracks are looked  *)
(* up before its Album is built.                                           *)

MaxItems == 4       \* items of one provider response

ResponseKinds == {"artist-list", "release-group-list", "track-list"}

\* the items a response of a kind may hold; only release groups are dated
ResponseItem(kind) ==
    [malformed : BOOLEAN,
     year : IF kind = "release-group-list" THEN Years ELSE {NoYear}]

ResponseItems(kind) ==
    UNION {[1..n -> ResponseItem(kind)] : n \in 0..MaxItems}

Malformed(items) == \E i \in DOMAIN items : items[i].malformed

\* the positions of the items from the i-th on, in response order
RECURSIVE Positions(_, _)
Positions(items, i) ==
    IF i > Len(items) THEN <<>>
    ELSE <<i>> \o Positions(items, i + 1)

\* search_artist: _parse_artist runs inside the one try of the method, so
\* an exception of any candidate returns []
parse_artist_list(items) ==
    IF Malformed(items) THEN <<>>
    ELSE Positions(items, 1)

\* get_album_tracks: _parse_track runs inside the one try of the method,
\* so an exception of any track returns []
parse_track_list(items) ==
    IF Malformed(items) THEN <<>>
    ELSE Positions(items, 1)

\* album = await self._parse_release_group(rg_data); if album:
\* albums.append(album).  _parse_release_group catches its own exceptions
\* and returns None
append_release_group(items, albums, i) ==
    IF items[i].malformed THEN albums ELSE Append(albums, i)

\* albums.sort(key=lambda x: x.release_year or 0); return albums
sorted_release_groups(items, albums) ==
    LET sorted == SortByYear([j \in DOMAIN albums |->
                                 [position     |-> albums[j],
                                  release_year |-> items[albums[j]].year]])
    IN  [j \in DOMAIN sorted |-> sorted[j].position]

\* the albums collected once the items from the i-th on are parsed too
RECURSIVE CollectReleaseGroups(_, _, _)
CollectReleaseGroups(items, albums, i) ==
    IF i > Len(items) THEN albums
    ELSE CollectReleaseGroups(items, append_release_group(items, albums, i),
                              i + 1)

\* what get_artist_discography returns for the response
parse_release_group_list(items) ==
    sorted_release_groups(items, CollectReleaseGroups(items, <<>>, 1))

\* what search_artist and get_album_tracks return for the response
parse_response(kind, items) ==
    CASE kind = "artist-list" -> parse_artist_list(items)
      [] kind = "track-list" -> parse_track_list(items)

ParseInit ==
    /\ now = 0
    /\ rl = RateLimiter(1, 1)
    /\ IdleRetry
    /\ IdleCrawl
    /\ \E k \in ResponseKinds :
           \E items \in ResponseItems(k) :
               apiCall = [name |-> "parse", kind |-> k, items |-> items,
                          lookup |-> 0,      \* release group being looked up
                          albums |-> <<>>,   \* release groups kept so far
                          returned |-> FALSE, result |-> <<>>]

ParseUnchanged ==
    UNCHANGED <<now, rl, retry_manager, rt, op, lastfm_api_key, stats,
                statusObjs, status, c>>

\* search_artist or get_album_tracks: the response has arrived, and the
\* method parses it and returns with no further await
ParseResponse ==
    /\ apiCall.name = "parse"
    /\ apiCall.kind # "release-group-list"
    /\ ~apiCall.returned
    /\ apiCall' = [apiCall EXCEPT
                      !.result = parse_response(apiCall.kind, apiCall.items),
                      !.returned = TRUE]
    /\ ParseUnchanged

\* get_artist_discography with the loop at its i-th item: the method
\* awaits that item's tracks, or sorts and returns after the last item
browse_loop(call, i) ==
    IF i > Len(call.items)
    THEN [call EXCEPT !.lookup = 0,
                      !.result = sorted_release_groups(call.items, call.albums),
                      !.returned = TRUE]
    ELSE [call EXCEPT !.lookup = i]

\* get_artist_discography: the browse response has arrived
ParseBrowseResponse ==
    /\ apiCall.name = "parse"
    /\ apiCall.kind = "release-group-list"
    /\ ~apiCall.returned
    /\ apiCall.lookup = 0
    /\ apiCall' = browse_loop(apiCall, 1)
    /\ ParseUnchanged

\* get_album_tracks has answered for the release group being parsed
ParseLookupReturn ==
    /\ apiCall.name = "parse"
    /\ apiCall.lookup > 0
    /\ apiCall' = browse_loop(
                      [apiCall EXCEPT !.albums =
                          append_release_group(apiCall.items, @, apiCall.lookup)],
                      apiCall.lookup + 1)
    /\ ParseUnchanged

ParseNext ==
    \/ ParseResponse
    \/ ParseBrowseResponse
    \/ ParseLookupReturn

ParseSpec == ParseInit /\ [][ParseNext]_vars

\* the stepwise parse of a release-group list returns what the method's
\* loop and sort return
ParseStepsAgree ==
    (apiCall.name = "parse" /\ apiCall.kind = "release-group-list"
         /\ apiCall.returned) =>
        apiCall.result = parse_release_group_list(apiCall.items)

\* C27: when items of a provider response are malformed, only those items
\* are dropped: the method returns every well-formed item of the response
\* and no other, whether the items are artist candidates, release groups
\* or tracks.
C27_ParseFailureIsolated ==
    (apiCall.name = "parse" /\ apiCall.returned) =>
        /\ \A i \in DOMAIN apiCall.items :
               ~apiCall.items[i].malformed =>
                   \E j \in DOMAIN apiCall.result : apiCall.result[j] = i
        /\ \A j \in DOMAIN apiCall.result :
               /\ apiCall.result[j] \in DOMAIN apiCall.items
               /\ ~apiCall.items[apiCall.result[j]].malformed

----------------------------------------------------------------------------
(* GeniusSpec: the requests of one GeniusClient, one after the other, each *)
(* through _rate_limit().  The interval, the cap and the length of the     *)
(* "minute" are drawn small; the client has 0.5 s, 60 and 60 s.            *)

MaxClock == 8       \* the clock of GeniusSpec stops here
MaxInterval == 2    \* min_request_interval
MaxPerMinute == 2   \* requests_per_minute
MaxMinute == 4      \* length of the rolling window

\* self.last_request_time = 0 is 1970 on the clock of time.time(): longer
\* ago than any interval
Epoch == 0 - MaxInterval

GeniusClient(interval, per_minute, minute) ==
    [min_request_interval |-> interval,
     requests_per_minute  |-> per_minute,
     minute               |-> minute,
     last_request_time    |-> Epoch,
     request_times        |-> <<>>,
     pc                   |-> "idle",   \* idle, sleep_minute, sleep_interval
     current_time         |-> 0,        \* the local of _rate_limit
     wake                 |-> 0,        \* end of the asyncio.sleep
     recorded             |-> <<>>]     \* history: every time registered

\* [t for t in self.request_times if current_time - t < 60]
genius_prune(g, t) ==
    SelectSeq(g.request_times, LAMBDA x : t - x < g.minute)

\* The slip of never waiting for the per-minute cap.
NoMinuteSleep(g) == 0

\* the sleep for the per-minute cap (0: none)
minute_sleep_time(g) ==
    IF Len(g.request_times) >= g.requests_per_minute
    THEN g.minute - (g.current_time - g.request_times[1])
    ELSE 0

\* the sleep for the minimum interval (0: none)
interval_sleep_time(g) ==
    LET time_since_last == g.current_time - g.last_request_time
    IN  IF time_since_last < g.min_request_interval
        THEN g.min_request_interval - time_since_last
        ELSE 0

\* self.last_request_time = time.time(); self.request_times.append(...)
genius_register(g, t) ==
    [g EXCEPT !.last_request_time = t,
              !.request_times = Append(@, t),
              !.recorded = Append(@, t),
              !.pc = "idle"]

\* from the interval check on, at time t
genius_interval(g, t) ==
    IF interval_sleep_time(g) > 0
    THEN [g EXCEPT !.pc = "sleep_interval", !.wake = t + interval_sleep_time(g)]
    ELSE genius_register(g, t)

\* _rate_limit() called at time t, up to its first suspension
genius_rate_limit(g, t) ==
    LET g1 == [g EXCEPT !.current_time = t,
                        !.request_times = genius_prune(g, t)]
    IN  IF minute_sleep_time(g1) > 0
        THEN [g1 EXCEPT !.pc = "sleep_minute", !.wake = t + minute_sleep_time(g1)]
        ELSE genius_interval(g1, t)

GeniusInit ==
    /\ now = 0
    /\ rl = RateLimiter(1, 1)
    /\ IdleRetry
    /\ IdleCrawl
    /\ \E i \in 1..MaxInterval, r \in 1..MaxPerMinute, m \in 2..MaxMinute :
           apiCall = [name |-> "genius", client |-> GeniusClient(i, r, m)]

GeniusUnchanged ==
    UNCHANGED <<rl, retry_manager, rt, op, lastfm_api_key, stats,
                statusObjs, status, c>>

\* a client method awaits self._rate_limit()
GeniusRateLimit ==
    /\ apiCall.name = "genius"
    /\ apiCall.client.pc = "idle"
    /\ apiCall' = [apiCall EXCEPT !.client = genius_rate_limit(@, now)]
    /\ UNCHANGED now
    /\ GeniusUnchanged

\* the sleep for the per-minute cap is over
GeniusWakeMinute ==
    /\ apiCall.name = "genius"
    /\ apiCall.client.pc = "sleep_minute"
    /\ now >= apiCall.client.wake
    /\ apiCall' = [apiCall EXCEPT !.client = genius_interval(@, now)]
    /\ UNCHANGED now
    /\ GeniusUnchanged

\* the sleep for the minimum interval is over
GeniusWakeInterval ==
    /\ apiCall.name = "genius"
    /\ apiCall.client.pc = "sleep_interval"
    /\ now >= apiCall.client.wake
    /\ apiCall' = [apiCall EXCEPT !.client = genius_register(@, now)]
    /\ UNCHANGED now
    /\ GeniusUnchanged

GeniusTick ==
    /\ apiCall.name = "genius"
    /\ now < MaxClock
    /\ now' = now + 1
    /\ UNCHANGED apiCall
    /\ GeniusUnchanged

GeniusNext ==
    \/ GeniusRateLimit
    \/ GeniusWakeMinute
    \/ GeniusWakeInterval
    \/ GeniusTick

GeniusSpec == GeniusInit /\ [][GeniusNext]_vars

\* the requests the client registered in the window of length w ending at t
GeniusRecordedInWindow(t, w) ==
    Cardinality({i \in DOMAIN apiCall.client.recorded :
                    /\ apiCall.client.recorded[i] > t - w
                    /\ apiCall.client.recorded[i] <= t})

\* C28: two successive requests of one GeniusClient are registered at least
\* min_request_interval apart, and at most requests_per_minute requests are
\* registered in any trailing window of one minute.
C28_GeniusPacing ==
    apiCall.name = "genius" =>
        LET g == apiCall.client
        IN  /\ \A i \in 1..(Len(g.recorded) - 1) :
                   g.recorded[i + 1] - g.recorded[i] >= g.min_request_interval
            /\ \A t \in 0..now :
                   GeniusRecordedInWindow(t, g.minute) <= g.requests_per_minute

\* The client has slept for the per-minute cap and then registered one
\* request more than the cap allows per minute.
C28_Witness ==
    /\ apiCall.name = "genius"
    /\ apiCall.client.pc = "idle"
    /\ Len(apiCall.client.recorded) = apiCall.client.requests_per_minute + 1
    /\ apiCall.client.requests_per_minute = 2
    /\ apiCall.client.recorded[3] - apiCall.client.recorded[1]
           = apiCall.client.minute
    /\ apiCall.client.recorded[2] - apiCall.client.recorded[1]
           = apiCall.client.min_request_interval

----------------------------------------------------------------------------
\* C29: once a crawl has ended, by returning, by raising or by being
\* cancelled, the CrawlStatus it created is no longer in_progress and has
\* completed_at set.
C29_EndedCrawlHasTerminalStatus ==
    Ended(CrawlTask) =>
        /\ statusObjs[c[CrawlTask].own].status # "in_progress"
        /\ statusObjs[c[CrawlTask].own].completed_at # NoTime

----------------------------------------------------------------------------
\* a make_request of the crawl is between its requests_made += 1 and its
\* return or raise
RequestInFlight == rt[CrawlTask].pc \in {"call", "backoff"}

\* C30: whenever no request is in flight, requests_made equals
\* requests_successful + requests_failed: every make_request that counted
\* itself as made has counted itself as successful or as failed, once.
C30_StatsAddUp ==
    ~RequestInFlight =>
        stats.requests_made = stats.requests_successful + stats.requests_failed

=============================================================================
